---- MODULE Spec2Model ----
(***************************************************************************)
(* Model of src/main.py (imoova relocation notifier).                      *)
(*                                                                         *)
(* One invocation of the script is a run; runs repeat sequentially over    *)
(* the two on-disk state files (seen offers, last message time).           *)
(*                                                                         *)
(* Text is modelled as a sequence of characters, a character being the     *)
(* name of one code point ("a", "M", " ", "U+00FC").  A comma-separated    *)
(* string is modelled as the sequence of its comma-free fields, so that    *)
(* s.split(",") is the sequence itself and ",".join(l) is l (or one empty  *)
(* field for the empty list, since "".split(",") == [""]).                 *)
(***************************************************************************)
EXTENDS Integers, Sequences, FiniteSets, TLC

----------------------------------------------------------------------------
(* Bounds of the model *)

MaxTicks == 2

(* Program constants *)

SecondsPerDay == 24 * 60 * 60

DefaultHeartbeatDays == 7

MinCols == 3

(* Granularity of the modelled clock: one day per tick *)
TickSeconds == SecondsPerDay

----------------------------------------------------------------------------
(* Characters and strings *)

Whitespace == {" "}

Combining == {"U+0308"}

UpperToLower == [ch \in {"M", "Z", "O", "R"} |->
                    CASE ch = "M" -> "m"
                      [] ch = "Z" -> "z"
                      [] ch = "O" -> "o"
                      [] ch = "R" -> "r"]

Decomposition == [ch \in {"U+00FC"} |-> <<"u", "U+0308">>]

RECURSIVE LStrip(_)
LStrip(s) == IF s = <<>> THEN <<>>
             ELSE IF Head(s) \in Whitespace THEN LStrip(Tail(s)) ELSE s

RECURSIVE RStrip(_)
RStrip(s) == IF s = <<>> THEN <<>>
             ELSE IF s[Len(s)] \in Whitespace
                  THEN RStrip(SubSeq(s, 1, Len(s) - 1)) ELSE s

(* str.strip() *)
Strip(s) == RStrip(LStrip(s))

(* str.lower() *)
Lower(s) == [i \in 1..Len(s) |->
               IF s[i] \in DOMAIN UpperToLower THEN UpperToLower[s[i]] ELSE s[i]]

(* unicodedata.normalize("NFKD", s) *)
RECURSIVE NFKD(_)
NFKD(s) == IF s = <<>> THEN <<>>
           ELSE (IF Head(s) \in DOMAIN Decomposition
                 THEN Decomposition[Head(s)] ELSE <<Head(s)>>) \o NFKD(Tail(s))

(* "".join(ch for ch in name if not unicodedata.combining(ch)) *)
RECURSIVE DropCombining(_)
DropCombining(s) == IF s = <<>> THEN <<>>
                    ELSE (IF Head(s) \in Combining THEN <<>> ELSE <<Head(s)>>)
                         \o DropCombining(Tail(s))

normalize_city(name) == IF name = <<>> THEN <<>>
                        ELSE DropCombining(NFKD(Lower(Strip(name))))

(* the Python test  `sub in s`  on strings *)
Contains(s, sub) == \E i \in 0..(Len(s) - Len(sub)) :
                       SubSeq(s, i + 1, i + Len(sub)) = sub

(* [c.strip() for c in raw.split(",") if c.strip()] *)
RECURSIVE SplitStrip(_)
SplitStrip(raw) == IF raw = <<>> THEN <<>>
                   ELSE (IF Strip(Head(raw)) # <<>> THEN <<Strip(Head(raw))>> ELSE <<>>)
                        \o SplitStrip(Tail(raw))

(* ",".join(l), as the sequence of fields of the joined string *)
JoinComma(l) == IF l = <<>> THEN << <<>> >> ELSE l

(* An optional value is a set with at most one element; the value, or the  *)
(* default when there is none: os.getenv(name, default), dict lookups      *)
Get(opt, default) == IF opt = {} THEN default ELSE CHOOSE v \in opt : TRUE

----------------------------------------------------------------------------
(* Configuration: environment, config.json and the command line *)

(* The empty string, as the fields of "".split(",") *)
EmptyRaw == << <<>> >>

(* load_config(): the environment (with its defaults) first, then every   *)
(* key of a readable config.json on top of it (config.update)             *)
load_config(environ, cfile) ==
    LET fromEnv == [telegram_token |-> Get(environ.TELEGRAM_TOKEN, ""),
                    telegram_chats |-> SplitStrip(Get(environ.TELEGRAM_CHATS, EmptyRaw)),
                    default_cities |-> SplitStrip(Get(environ.DEFAULT_CITIES, EmptyRaw)),
                    heartbeat_days |-> Get(environ.HEARTBEAT_DAYS, DefaultHeartbeatDays)]
    IN  IF cfile.status = "ok"
        THEN [telegram_token |-> Get(cfile.telegram_token, fromEnv.telegram_token),
              telegram_chats |-> Get(cfile.telegram_chats, fromEnv.telegram_chats),
              default_cities |-> Get(cfile.default_cities, fromEnv.default_cities),
              heartbeat_days |-> Get(cfile.heartbeat_days, fromEnv.heartbeat_days)]
        ELSE fromEnv

(* parser.parse_args(): a flag given on the command line, else the default *)
(* taken from the loaded configuration                                     *)
parse_args(cfg, argv) ==
    [cities         |-> Get(argv.cities, JoinComma(cfg.default_cities)),
     telegram_token |-> Get(argv.telegram_token, cfg.telegram_token),
     telegram_chats |-> Get(argv.telegram_chats, JoinComma(cfg.telegram_chats))]

(* chats = [c.strip() for c in args.telegram_chats.split(",") if c.strip()] *)
(* when args.telegram_chats is a non-empty string, else []                  *)
build_chats(a) == IF a.telegram_chats = EmptyRaw THEN <<>>
                  ELSE SplitStrip(a.telegram_chats)

(* cities = [c.strip() for c in args.cities.split(",") if c.strip()] *)
build_cities(a) == SplitStrip(a.cities)

----------------------------------------------------------------------------
(* Listing fetcher and city matcher *)

(* A table is the sequence of its rows, a row the sequence of the stripped *)
(* texts of its <td> cells (cols[k].get_text(strip=True))                  *)

HeaderOrigin == <<"o", "r", "i", "g", "i", "n">>

(* cols[k-1].get_text(strip=True) if len(cols) > k-1 else "" *)
CellOr(cols, k) == IF Len(cols) >= k THEN cols[k] ELSE <<>>

RowOffer(cols) == [id      |-> cols[1],
                   origin  |-> cols[2],
                   arrival |-> cols[3],
                   start   |-> CellOr(cols, 4),
                   end     |-> CellOr(cols, 5),
                   model   |-> CellOr(cols, 6),
                   days    |-> CellOr(cols, 8)]

(* if offer_id and origin and arrival and origin.lower() != "origin" *)
RowValid(cols) == /\ Len(cols) >= MinCols
                  /\ cols[1] # <<>>
                  /\ cols[2] # <<>>
                  /\ cols[3] # <<>>
                  /\ Lower(cols[2]) # HeaderOrigin

(* variant: every row with three cells marks its identifier as seen *)
RECURSIVE ScanRows_MarkInvalid(_, _, _)
ScanRows_MarkInvalid(rows, campers, seen_ids) ==
    IF rows = <<>> THEN campers
    ELSE IF RowValid(Head(rows)) /\ Head(rows)[1] \notin seen_ids
         THEN ScanRows_MarkInvalid(Tail(rows), Append(campers, RowOffer(Head(rows))),
                                   seen_ids \cup {Head(rows)[1]})
         ELSE ScanRows_MarkInvalid(Tail(rows), campers,
                                   IF Len(Head(rows)) >= MinCols
                                   THEN seen_ids \cup {Head(rows)[1]}
                                   ELSE seen_ids)

(* variant: a repeated identifier is not collapsed *)
RECURSIVE ScanRows_NoDedup(_, _, _)
ScanRows_NoDedup(rows, campers, seen_ids) ==
    IF rows = <<>> THEN campers
    ELSE IF RowValid(Head(rows))
         THEN ScanRows_NoDedup(Tail(rows), Append(campers, RowOffer(Head(rows))),
                               seen_ids \cup {Head(rows)[1]})
         ELSE ScanRows_NoDedup(Tail(rows), campers, seen_ids)

RECURSIVE ScanRows(_, _, _)
ScanRows(rows, campers, seen_ids) ==
    IF rows = <<>> THEN campers
    ELSE IF RowValid(Head(rows)) /\ Head(rows)[1] \notin seen_ids
         THEN ScanRows(Tail(rows), Append(campers, RowOffer(Head(rows))),
                       seen_ids \cup {Head(rows)[1]})
         ELSE ScanRows(Tail(rows), campers, seen_ids)

(* the parsing loop of fetch_imoova_campers() over the rows of the page *)
fetch_imoova_campers(table) == ScanRows(table, <<>>, {})

(* variant: without the test that the normalized city is not empty *)
CamperMatches_NoEmptyGuard(c, norm_cities) ==
    \E k \in 1..Len(norm_cities) :
        \/ Contains(normalize_city(c.origin), norm_cities[k])
        \/ Contains(normalize_city(c.arrival), norm_cities[k])

(* nc and (nc in o or nc in a), for some nc of norm_cities *)
CamperMatches(c, norm_cities) ==
    \E k \in 1..Len(norm_cities) :
        /\ norm_cities[k] # <<>>
        /\ \/ Contains(normalize_city(c.origin), norm_cities[k])
           \/ Contains(normalize_city(c.arrival), norm_cities[k])

RECURSIVE SelectMatching(_, _)
SelectMatching(campers, norm_cities) ==
    IF campers = <<>> THEN <<>>
    ELSE (IF CamperMatches(Head(campers), norm_cities) THEN <<Head(campers)>> ELSE <<>>)
         \o SelectMatching(Tail(campers), norm_cities)

filter_campers(campers, cities) ==
    SelectMatching(campers, [k \in 1..Len(cities) |-> normalize_city(cities[k])])

(* filtered = filter_campers(campers, cities) if cities else campers *)
FilterOrAll(campers, cities) ==
    IF cities # <<>> THEN filter_campers(campers, cities) ELSE campers

(* set(c.get('id') for c in campers if c.get('id')) *)
IdsOf(campers) == {campers[k].id : k \in {j \in 1..Len(campers) : campers[j].id # <<>>}}

(* variant: every filtered offer is new, seen or not *)
NewOffers_IgnoreSeen(filtered_, seen_) == filtered_

(* [c for c in filtered if c.get('id') and c.get('id') not in seen] *)
RECURSIVE NewOffers(_, _)
NewOffers(filtered, seen) ==
    IF filtered = <<>> THEN <<>>
    ELSE (IF Head(filtered).id # <<>> /\ Head(filtered).id \notin seen
          THEN <<Head(filtered)>> ELSE <<>>)
         \o NewOffers(Tail(filtered), seen)

----------------------------------------------------------------------------
(* State files *)

(* seen_offers.json: absent, unparsable, a JSON value that is not a list,  *)
(* or a list of identifiers (kept as the set that set(data) makes of it)   *)
SeenFileOf(ids) == [kind |-> "list", ids |-> ids]

SeenAbsent == [kind |-> "absent", ids |-> {}]

SeenGarbage == [kind |-> "garbage", ids |-> {}]

(* valid JSON that is not a list: an object with the key "A", of which     *)
(* set(data) would make {"A"}                                              *)
SeenNotAList == [kind |-> "other", ids |-> {<<"A">>}]

(* last_message.json: absent, unparsable, or {"last_message_time": t} *)
HbFileOf(t) == [kind |-> "time", t |-> t]

HbAbsent == [kind |-> "absent", t |-> 0]

HbGarbage == [kind |-> "garbage", t |-> 0]

(* A write through open(path, "w") + json.dump whose exception is          *)
(* swallowed: it succeeds, or open() fails and the file is unchanged, or   *)
(* the file is truncated by open() and the dump fails, leaving it          *)
(* unparsable                                                              *)
WriteOutcomes == {"ok", "unchanged", "truncated"}

(* variant: set(data) without the isinstance test *)
load_seen_NoTypeCheck(f) == IF f.kind \in {"list", "other"} THEN f.ids ELSE {}

load_seen(f) == IF f.kind = "list" THEN f.ids ELSE {}

save_seen(seen_ids, f, outcome) ==
    CASE outcome = "ok"        -> SeenFileOf(seen_ids)
      [] outcome = "unchanged" -> f
      [] outcome = "truncated" -> SeenGarbage

(* the value returned, as an optional: None is {} *)
get_last_message_time(f) == IF f.kind = "time" THEN {f.t} ELSE {}

update_last_message_time(f, t, outcome) ==
    CASE outcome = "ok"        -> HbFileOf(t)
      [] outcome = "unchanged" -> f
      [] outcome = "truncated" -> HbGarbage

----------------------------------------------------------------------------
(* Inputs the runs are exercised with *)

IdA == <<"A">>

IdB == <<"B">>

IdC == <<"C">>

Ids == {IdA, IdB}

Mad == <<"M", "a", "d">>

Zur == <<"Z", "U+00FC", "r">>

Rom == <<"r", "o", "m">>

Par == <<"p", "a", "r">>

HeaderRow == << <<"i", "d">>, <<"O", "r", "i", "g", "i", "n">>, <<"t", "o">> >>

RowA == <<IdA, Mad, Rom>>

RowB == <<IdB, Rom, Zur, <<"1">>, <<"2">>, <<"v">>, <<>>, <<"3">> >>

(* a row with the identifier of RowA and another route *)
RowA2 == <<IdA, Par, Par>>

(* a row with fewer than three cells *)
ShortRow == <<IdC, Rom>>

RowsOf(S) == (IF IdA \in S THEN <<RowA>> ELSE <<>>)
             \o (IF IdB \in S THEN <<RowB>> ELSE <<>>)

(* the pages a run may fetch: a header row and the rows of some offers; a  *)
(* page with a repeated identifier and a short row; a page on which the    *)
(* route of offer A has changed and offer B is gone                        *)
Tables == {<<HeaderRow>> \o RowsOf(S) : S \in SUBSET Ids}
          \cup {<<RowA, RowA2, ShortRow, RowB>>, <<HeaderRow, RowA2>>}

NoEnv == [TELEGRAM_TOKEN |-> {}, TELEGRAM_CHATS |-> {}, DEFAULT_CITIES |-> {},
          HEARTBEAT_DAYS |-> {}]

NoFile == [status |-> "missing", telegram_token |-> {}, telegram_chats |-> {},
           default_cities |-> {}, heartbeat_days |-> {}]

NoArgv == [cities |-> {}, telegram_token |-> {}, telegram_chats |-> {}]

Chat1 == <<"1">>

Chat2 == <<"2">>

(* the deployments the runs are exercised with *)
Deployments ==
    { (* everything from the environment: two chats, cities "Mad", one day *)
      [environ |-> [TELEGRAM_TOKEN |-> {"tokE"},
                    TELEGRAM_CHATS |-> {<<Chat1, <<" ", "2">> >>},
                    DEFAULT_CITIES |-> {<<Mad, <<"z", "u", "r">> >>},
                    HEARTBEAT_DAYS |-> {1}],
       cfile |-> NoFile, argv |-> NoArgv],
      (* a config file on top of the environment: one chat, no city filter *)
      [environ |-> [NoEnv EXCEPT !.TELEGRAM_TOKEN = {"tokE"}],
       cfile |-> [status |-> "ok", telegram_token |-> {"tokF"},
                  telegram_chats |-> {<<Chat1>>}, default_cities |-> {},
                  heartbeat_days |-> {0}],
       argv |-> NoArgv],
      (* everything on the command line: the same chat twice, cities "zur" *)
      [environ |-> [NoEnv EXCEPT !.HEARTBEAT_DAYS = {1}],
       cfile |-> NoFile,
       argv |-> [cities |-> {<< <<"z", "u", "r">>, <<" ">> >>},
                 telegram_token |-> {"tokC"},
                 telegram_chats |-> {<<Chat2, Chat2>>}]],
      (* nothing configured *)
      [environ |-> NoEnv, cfile |-> NoFile, argv |-> NoArgv],
      (* a credential but no destination *)
      [environ |-> [NoEnv EXCEPT !.TELEGRAM_TOKEN = {"tokE"},
                                 !.DEFAULT_CITIES = {<<Mad>>}],
       cfile |-> [NoFile EXCEPT !.status = "invalid"], argv |-> NoArgv] }

----------------------------------------------------------------------------
(* State *)

VARIABLES
    seenFile,    \* seen_offers.json
    hbFile,      \* last_message.json
    now,         \* time.time()
    environ,     \* os.environ
    cfile,       \* config.json
    argv,        \* the command line
    pc,          \* position of the run in the script
    exitCode,    \* exit status of the run (-1 while running)
    config,      \* the module-level config
    args,        \* args of parse_args()
    chats,       \* chats
    campers,     \* campers
    page,        \* history: the rows of the page fetched (kept under SpecFetch)
    cities,      \* cities
    filtered,    \* filtered
    seen,        \* seen
    stale,       \* stale
    new,         \* new
    idx,         \* position of the loop  for c in new
    ctx,         \* caller of the running send_to_chats: "error", "alive", "offer"
    chatIdx,     \* position of the loop  for chat in chats
    results,     \* results of send_to_chats (the ok flags)
    last_time,   \* last_time of check_and_send_alive_message (None is {})
    check_now,   \* now of check_and_send_alive_message
    sent,        \* history: the calls of send_telegram_message in this run
    io,          \* history: file accesses of this run
    fetched,     \* history: outcome of the fetch of this run
    startSeen,   \* history: the identifiers loaded at the start of this run
    delivered,   \* history: identifiers fully delivered and persisted by earlier runs
    partial,     \* history: offers the previous run delivered to fewer than all chats
    interrupted, \* history: offers delivered by runs that were killed in the loop
    parked       \* the variables of a second process of the script, while it waits

inputVars == <<environ, cfile, argv>>

cfgVars == <<config, args, chats>>

offerVars == <<campers, page, cities, filtered>>

seenVars == <<seen, stale, new, idx>>

sendVars == <<ctx, chatIdx, results>>

hbVars == <<last_time, check_now>>

crossVars == <<delivered, partial, interrupted>>

vars == <<seenFile, hbFile, now, environ, cfile, argv, pc, exitCode, config, args,
          chats, campers, page, cities, filtered, seen, stale, new, idx, ctx, chatIdx,
          results, last_time, check_now, sent, io, fetched, startSeen, delivered,
          partial, interrupted, parked>>

NoConfig == [telegram_token |-> "", telegram_chats |-> <<>>, default_cities |-> <<>>,
             heartbeat_days |-> DefaultHeartbeatDays]

NoArgs == [cities |-> EmptyRaw, telegram_token |-> "", telegram_chats |-> EmptyRaw]

NoIo == [seenReads |-> 0, seenWrites |-> 0, hbReads |-> 0, hbWrites |-> 0,
         hbChecks |-> 0, failed |-> FALSE, hbLast |-> "none",
         pruneSave |-> "none", finalSave |-> "none", crashed |-> FALSE]

(* the variables of a process, as a record *)
Process == [pc |-> pc, exitCode |-> exitCode, config |-> config, args |-> args,
            chats |-> chats, campers |-> campers, page |-> page, cities |-> cities,
            filtered |-> filtered, seen |-> seen, stale |-> stale, new |-> new,
            idx |-> idx, ctx |-> ctx, chatIdx |-> chatIdx, results |-> results,
            last_time |-> last_time, check_now |-> check_now, sent |-> sent,
            io |-> io, fetched |-> fetched, startSeen |-> startSeen]

(* the variables of a process that has not yet executed anything *)
NotStarted == [pc |-> "start", exitCode |-> -1, config |-> NoConfig, args |-> NoArgs,
               chats |-> <<>>, campers |-> <<>>, page |-> <<>>, cities |-> <<>>,
               filtered |-> <<>>, seen |-> {}, stale |-> {}, new |-> <<>>,
               idx |-> 0, ctx |-> "none", chatIdx |-> 0, results |-> <<>>,
               last_time |-> {}, check_now |-> 0, sent |-> <<>>,
               io |-> NoIo, fetched |-> "none", startSeen |-> {}]

(* the state of a process that has not yet executed anything *)
FreshRun ==
    /\ pc = "start"
    /\ exitCode = -1
    /\ config = NoConfig
    /\ args = NoArgs
    /\ chats = <<>>
    /\ campers = <<>>
    /\ page = <<>>
    /\ cities = <<>>
    /\ filtered = <<>>
    /\ seen = {}
    /\ stale = {}
    /\ new = <<>>
    /\ idx = 0
    /\ ctx = "none"
    /\ chatIdx = 0
    /\ results = <<>>
    /\ last_time = {}
    /\ check_now = 0
    /\ sent = <<>>
    /\ io = NoIo
    /\ fetched = "none"
    /\ startSeen = {}

(* a fresh deployment: no heartbeat file; no seen file, or one that some   *)
(* other program left behind                                               *)
Init ==
    /\ seenFile \in {SeenAbsent, SeenGarbage, SeenNotAList}
    /\ hbFile = HbAbsent
    /\ now = 0
    /\ \E d \in Deployments :
          /\ environ = d.environ
          /\ cfile = d.cfile
          /\ argv = d.argv
    /\ FreshRun
    /\ delivered = {}
    /\ partial = {}
    /\ interrupted = {}
    /\ parked = NotStarted

----------------------------------------------------------------------------
(* Decisions of the main program *)

(* variant: a credential alone enables the notifications *)
NotifyEnabled_TokenOnly(token, chatList) == token # ""

(* if args.telegram_token and chats *)
NotifyEnabled(token, chatList) == token # "" /\ chatList # <<>>

(* variant: the liveness message is due at the threshold already *)
AliveDue_NonStrict(last, t, days) == last <= t - days * SecondsPerDay

(* last_time < now - heartbeat_days * 24 * 60 * 60 *)
AliveDue(last, t, days) == last < t - days * SecondsPerDay

(* variant: the time is recorded after every dispatch *)
AnyOk_Always(res) == TRUE

(* variant: the time is recorded only if every send succeeded *)
AnyOk_All(res) == \A k \in 1..Len(res) : res[k]

(* any(ok for _, ok, _ in results) *)
AnyOk(res) == \E k \in 1..Len(res) : res[k]

(* sum(1 for _chat, ok, _resp in results if ok) *)
SuccessCount(res) == Cardinality({k \in 1..Len(res) : res[k]})

(* variant: an offer is committed as soon as one chat received it *)
ShouldCommit_AnySuccess(success_count, chatList) == success_count >= 1

(* variant: an offer is committed whatever the sends gave *)
ShouldCommit_Always(success_count, chatList) == TRUE

(* if success_count == len(chats) *)
ShouldCommit(success_count, chatList) == success_count = Len(chatList)

(* variant: the seen identifiers are pruned against the filtered offers *)
StaleIds_Filtered(seen_ids, allCampers) == seen_ids \ IdsOf(filtered)

(* stale = seen - current_ids *)
StaleIds(seen_ids, allCampers) == seen_ids \ IdsOf(allCampers)

----------------------------------------------------------------------------
(* Actions: the steps of one run of the script *)

(* the chats the loop of send_to_chats goes through: none when the token   *)
(* or the list is empty (early return)                                     *)
LoopChats == IF args.telegram_token = "" \/ chats = <<>> THEN <<>> ELSE chats

(* the identifier of the offer being notified *)
CurrentId == IF ctx = "offer" /\ idx \in 1..Len(new) THEN new[idx].id ELSE <<>>

(* entry of send_to_chats(token, chats, text) called from `caller` *)
StartSend(caller) ==
    /\ ctx' = caller
    /\ chatIdx' = 1
    /\ results' = <<>>
    /\ pc' = "send"

(* module load and argument parsing *)
Startup ==
    /\ pc = "start"
    /\ config' = load_config(environ, cfile)
    /\ args' = parse_args(config', argv)
    /\ chats' = build_chats(args')
    /\ pc' = "fetch"
    /\ UNCHANGED <<seenFile, hbFile, now, inputVars, parked, exitCode,
                   offerVars, seenVars, sendVars, hbVars, sent, io, fetched,
                   startSeen, crossVars>>

(* variant: a failed fetch exits without reporting *)
FetchFailed_Silent == pc' = "exit" /\ exitCode' = 1 /\ UNCHANGED sendVars

(* the fetch failed or found nothing: report it when configured, exit 1 *)
FetchFailed ==
    IF NotifyEnabled(args.telegram_token, chats)
    THEN StartSend("error") /\ UNCHANGED exitCode
    ELSE pc' = "exit" /\ exitCode' = 1 /\ UNCHANGED sendVars

(* fetch_imoova_campers() raises (network or HTTP error) *)
FetchRaises ==
    /\ pc = "fetch"
    /\ fetched' = "raised"
    /\ FetchFailed
    /\ UNCHANGED <<seenFile, hbFile, now, inputVars, parked, cfgVars,
                   offerVars, seenVars, hbVars, sent, io, startSeen,
                   crossVars>>

(* fetch_imoova_campers() returns the offers of the page, which is one of  *)
(* `tables`; the rows of the page are kept in the history where `keep`     *)
FetchFrom(tables, keep) ==
    /\ pc = "fetch"
    /\ \E table \in tables :
          /\ page' = IF keep THEN table ELSE <<>>
          /\ campers' = fetch_imoova_campers(table)
          /\ IF campers' = <<>>
             THEN /\ fetched' = "empty"
                  /\ FetchFailed
                  /\ UNCHANGED <<cities, filtered>>
             ELSE /\ fetched' = "ok"
                  /\ cities' = build_cities(args)
                  /\ filtered' = FilterOrAll(campers', cities')
                  /\ pc' = "load"
                  /\ UNCHANGED <<exitCode, sendVars>>
    /\ UNCHANGED <<seenFile, hbFile, now, inputVars, parked, cfgVars,
                   seenVars, hbVars, sent, io, startSeen, crossVars>>

FetchTable == FetchFrom(Tables, FALSE)

(* seen = load_seen(args.seen_file); stale = seen - current_ids *)
LoadSeen ==
    /\ pc = "load"
    /\ seen' = load_seen(seenFile)
    /\ stale' = StaleIds(seen', campers)
    /\ startSeen' = seen'
    /\ io' = [io EXCEPT !.seenReads = @ + 1]
    /\ pc' = "prune"
    /\ UNCHANGED <<seenFile, hbFile, now, inputVars, parked, exitCode,
                   cfgVars, offerVars, new, idx, sendVars, hbVars, sent,
                   fetched, crossVars>>

(* if stale: discard the stale identifiers and save; then the status lines *)
(* and the test of the notification block                                  *)
Prune ==
    /\ pc = "prune"
    /\ IF stale # {}
       THEN /\ seen' = seen \ stale
            /\ \E o \in WriteOutcomes :
                  /\ seenFile' = save_seen(seen', seenFile, o)
                  /\ io' = [io EXCEPT !.seenWrites = @ + 1,
                                      !.failed = @ \/ o # "ok",
                                      !.pruneSave = o]
       ELSE UNCHANGED <<seen, seenFile, io>>
    /\ IF NotifyEnabled(args.telegram_token, chats)
       THEN pc' = "hb" /\ UNCHANGED exitCode
       ELSE pc' = "exit" /\ exitCode' = 0
    /\ UNCHANGED <<hbFile, now, inputVars, parked, cfgVars, offerVars, stale,
                   new, idx, sendVars, hbVars, sent, fetched, startSeen,
                   crossVars>>

(* check_and_send_alive_message up to its call of send_to_chats *)
CheckAlive ==
    /\ pc = "hb"
    /\ last_time' = get_last_message_time(hbFile)
    /\ IF last_time' = {}
       THEN /\ \E o \in WriteOutcomes :
                  /\ hbFile' = update_last_message_time(hbFile, now, o)
                  /\ io' = [io EXCEPT !.hbReads = @ + 1, !.hbChecks = @ + 1,
                                      !.hbWrites = @ + 1,
                                      !.failed = @ \/ o # "ok",
                                      !.hbLast = o]
            /\ pc' = "reload"
            /\ UNCHANGED <<check_now, sendVars>>
       ELSE /\ check_now' = now
            /\ io' = [io EXCEPT !.hbReads = @ + 1, !.hbChecks = @ + 1]
            /\ IF AliveDue(Get(last_time', 0), now, config.heartbeat_days)
               THEN StartSend("alive")
               ELSE pc' = "reload" /\ UNCHANGED sendVars
            /\ UNCHANGED hbFile
    /\ UNCHANGED <<seenFile, now, inputVars, parked, exitCode, cfgVars,
                   offerVars, seenVars, sent, fetched, startSeen, crossVars>>

(* variant: the loop of send_to_chats stops at the first failed send *)
SendOne_BreakOnFailure ==
    /\ pc = "send"
    /\ chatIdx <= Len(LoopChats)
    /\ \E ok \in BOOLEAN :
          /\ results' = Append(results, ok)
          /\ sent' = Append(sent, [kind |-> ctx, id |-> CurrentId, chat |-> chatIdx,
                                    to |-> chats[chatIdx], ok |-> ok])
          /\ chatIdx' = IF ok THEN chatIdx + 1 ELSE Len(LoopChats) + 1
    /\ UNCHANGED <<seenFile, hbFile, now, inputVars, parked, pc, exitCode,
                   cfgVars, offerVars, seenVars, ctx, hbVars, io, fetched,
                   startSeen, crossVars>>

(* variant: the time is recorded after every send that succeeded *)
SendOne_RecordEach ==
    /\ pc = "send"
    /\ chatIdx <= Len(LoopChats)
    /\ \E ok \in (IF args.telegram_token = "" \/ chats[chatIdx] = <<>>
                  THEN {FALSE} ELSE BOOLEAN) :
          /\ results' = Append(results, ok)
          /\ sent' = Append(sent, [kind |-> ctx, id |-> CurrentId, chat |-> chatIdx,
                                    to |-> chats[chatIdx], ok |-> ok])
          /\ IF ok
             THEN /\ hbFile' = update_last_message_time(hbFile, now, "ok")
                  /\ io' = [io EXCEPT !.hbWrites = @ + 1, !.hbLast = "ok"]
             ELSE UNCHANGED <<hbFile, io>>
    /\ chatIdx' = chatIdx + 1
    /\ UNCHANGED <<seenFile, now, inputVars, parked, pc, exitCode, cfgVars,
                   offerVars, seenVars, ctx, hbVars, fetched, startSeen,
                   crossVars>>

(* one iteration of the loop of send_to_chats: send_telegram_message       *)
(* returns False without a request when the token or the chat is empty,    *)
(* else whatever the request gives                                         *)
SendOne ==
    /\ pc = "send"
    /\ chatIdx <= Len(LoopChats)
    /\ \E ok \in (IF args.telegram_token = "" \/ chats[chatIdx] = <<>>
                  THEN {FALSE} ELSE BOOLEAN) :
          /\ results' = Append(results, ok)
          /\ sent' = Append(sent, [kind |-> ctx, id |-> CurrentId, chat |-> chatIdx,
                                    to |-> chats[chatIdx], ok |-> ok])
    /\ chatIdx' = chatIdx + 1
    /\ UNCHANGED <<seenFile, hbFile, now, inputVars, parked, pc, exitCode,
                   cfgVars, offerVars, seenVars, ctx, hbVars, io, fetched,
                   startSeen, crossVars>>

(* end of send_to_chats: record the time if any send succeeded, return *)
SendDone ==
    /\ pc = "send"
    /\ chatIdx > Len(LoopChats)
    /\ IF AnyOk(results)
       THEN \E o \in WriteOutcomes :
               /\ hbFile' = update_last_message_time(hbFile, now, o)
               /\ io' = [io EXCEPT !.hbWrites = @ + 1,
                                   !.failed = @ \/ o # "ok",
                                   !.hbLast = o]
       ELSE UNCHANGED <<hbFile, io>>
    /\ CASE ctx = "error" -> pc' = "exit" /\ exitCode' = 1
         [] ctx = "alive" -> pc' = "alive_ret" /\ UNCHANGED exitCode
         [] ctx = "offer" -> pc' = "commit" /\ UNCHANGED exitCode
    /\ UNCHANGED <<seenFile, now, inputVars, parked, cfgVars, offerVars,
                   seenVars, sendVars, hbVars, sent, fetched, startSeen,
                   crossVars>>

(* check_and_send_alive_message after send_to_chats returned *)
AliveReturn ==
    /\ pc = "alive_ret"
    /\ IF AnyOk(results)
       THEN \E o \in WriteOutcomes :
               /\ hbFile' = update_last_message_time(hbFile, now, o)
               /\ io' = [io EXCEPT !.hbWrites = @ + 1,
                                   !.failed = @ \/ o # "ok",
                                   !.hbLast = o]
       ELSE UNCHANGED <<hbFile, io>>
    /\ pc' = "reload"
    /\ UNCHANGED <<seenFile, now, inputVars, parked, exitCode, cfgVars,
                   offerVars, seenVars, sendVars, hbVars, sent, fetched,
                   startSeen, crossVars>>

(* seen = load_seen(args.seen_file); new = [...] *)
Reload ==
    /\ pc = "reload"
    /\ seen' = load_seen(seenFile)
    /\ new' = NewOffers(filtered, seen')
    /\ idx' = 1
    /\ io' = [io EXCEPT !.seenReads = @ + 1]
    /\ pc' = "notify"
    /\ UNCHANGED <<seenFile, hbFile, now, inputVars, parked, exitCode,
                   cfgVars, offerVars, stale, sendVars, hbVars, sent, fetched,
                   startSeen, crossVars>>

(* head of the loop  for c in new: send the next offer, or leave the loop *)
NotifyNext ==
    /\ pc = "notify"
    /\ IF idx <= Len(new)
       THEN StartSend("offer")
       ELSE pc' = "save" /\ UNCHANGED sendVars
    /\ UNCHANGED <<seenFile, hbFile, now, inputVars, parked, exitCode,
                   cfgVars, offerVars, seenVars, hbVars, sent, io, fetched,
                   startSeen, crossVars>>

(* variant: the seen file is saved inside the loop, after every offer *)
Commit_SaveEach ==
    /\ pc = "commit"
    /\ seen' = IF ShouldCommit(SuccessCount(results), chats)
               THEN seen \cup {new[idx].id} ELSE seen
    /\ \E o \in WriteOutcomes :
          /\ seenFile' = save_seen(seen', seenFile, o)
          /\ io' = [io EXCEPT !.seenWrites = @ + 1, !.failed = @ \/ o # "ok"]
    /\ idx' = idx + 1
    /\ pc' = "notify"
    /\ UNCHANGED <<hbFile, now, inputVars, parked, exitCode, cfgVars,
                   offerVars, stale, new, sendVars, hbVars, sent, fetched,
                   startSeen, crossVars>>

(* mark the offer as seen only if all notifications were successful *)
Commit ==
    /\ pc = "commit"
    /\ seen' = IF ShouldCommit(SuccessCount(results), chats)
               THEN seen \cup {new[idx].id} ELSE seen
    /\ idx' = idx + 1
    /\ pc' = "notify"
    /\ UNCHANGED <<seenFile, hbFile, now, inputVars, parked, exitCode,
                   cfgVars, offerVars, stale, new, sendVars, hbVars, sent, io,
                   fetched, startSeen, crossVars>>

(* variant: the final save adds to what the file holds at that moment *)
FinalSave_Merge ==
    /\ pc = "save"
    /\ \E o \in WriteOutcomes :
          /\ seenFile' = save_seen(seen \cup load_seen(seenFile), seenFile, o)
          /\ io' = [io EXCEPT !.seenWrites = @ + 1,
                              !.failed = @ \/ o # "ok",
                              !.finalSave = o]
    /\ pc' = "exit"
    /\ exitCode' = 0
    /\ UNCHANGED <<hbFile, now, inputVars, parked, cfgVars, offerVars,
                   seenVars, sendVars, hbVars, sent, fetched, startSeen,
                   crossVars>>

(* save_seen(seen, args.seen_file) after the loop; the script ends *)
FinalSave ==
    /\ pc = "save"
    /\ \E o \in WriteOutcomes :
          /\ seenFile' = save_seen(seen, seenFile, o)
          /\ io' = [io EXCEPT !.seenWrites = @ + 1,
                              !.failed = @ \/ o # "ok",
                              !.finalSave = o]
    /\ pc' = "exit"
    /\ exitCode' = 0
    /\ UNCHANGED <<hbFile, now, inputVars, parked, cfgVars, offerVars,
                   seenVars, sendVars, hbVars, sent, fetched, startSeen,
                   crossVars>>

(* the chats (positions in the list) to which this run sent offer `id` with *)
(* success                                                                 *)
OkChats(id) == {sent[k].chat : k \in {j \in 1..Len(sent) :
                   sent[j].kind = "offer" /\ sent[j].id = id /\ sent[j].ok}}

(* identifiers of the offers this run sent *)
OffersSent == {sent[k].id : k \in {j \in 1..Len(sent) : sent[j].kind = "offer"}}

(* identifiers of the offers this run sent to every chat with success *)
FullyDelivered == {id \in OffersSent : OkChats(id) = 1..Len(chats)}

(* the offers this run sent, but not to every chat with success *)
PartlyDelivered == {[id |-> id, okChats |-> OkChats(id)] :
                       id \in OffersSent \ FullyDelivered}

(* the process has exited; the scheduler starts the next run *)
NextRun ==
    /\ pc = "exit"
    /\ delivered' =
          IF "truncated" \in {io.pruneSave, io.finalSave} THEN {}
          ELSE (delivered \cap IdsOf(campers))
               \cup (IF io.failed \/ io.crashed THEN {} ELSE FullyDelivered)
    /\ partial' = PartlyDelivered
    /\ interrupted' =
          IF io.crashed THEN interrupted \cup {id \in OffersSent : OkChats(id) # {}}
          ELSE IF io.finalSave # "none" THEN interrupted \ IdsOf(filtered)
          ELSE interrupted
    /\ pc' = "start"
    /\ exitCode' = -1
    /\ config' = NoConfig
    /\ args' = NoArgs
    /\ chats' = <<>>
    /\ campers' = <<>>
    /\ page' = <<>>
    /\ cities' = <<>>
    /\ filtered' = <<>>
    /\ seen' = {}
    /\ stale' = {}
    /\ new' = <<>>
    /\ idx' = 0
    /\ ctx' = "none"
    /\ chatIdx' = 0
    /\ results' = <<>>
    /\ last_time' = {}
    /\ check_now' = 0
    /\ sent' = <<>>
    /\ io' = NoIo
    /\ fetched' = "none"
    /\ startSeen' = {}
    /\ UNCHANGED <<seenFile, hbFile, now, inputVars, parked>>

(* the steps that read the clock next: time.time() is called by            *)
(* check_and_send_alive_message and by update_last_message_time            *)
ReadsClock == \/ pc \in {"start", "hb", "alive_ret"}
              \/ pc = "send" /\ chatIdx > Len(LoopChats)

(* time passes; it is let pass where the clock is read next, and between   *)
(* runs                                                                    *)
Tick ==
    /\ now < MaxTicks * TickSeconds
    /\ ReadsClock
    /\ now' = now + TickSeconds
    /\ UNCHANGED <<seenFile, hbFile, inputVars, parked, pc, exitCode, cfgVars,
                   offerVars, seenVars, sendVars, hbVars, sent, io, fetched,
                   startSeen, crossVars>>

Next ==
    \/ Startup
    \/ FetchRaises
    \/ FetchTable
    \/ LoadSeen
    \/ Prune
    \/ CheckAlive
    \/ SendOne
    \/ SendDone
    \/ AliveReturn
    \/ Reload
    \/ NotifyNext
    \/ Commit
    \/ FinalSave
    \/ NextRun
    \/ Tick

Spec == Init /\ [][Next]_vars

----------------------------------------------------------------------------
(* Properties *)

(* the sends of this run of offer `id` that succeeded *)
OkSends(id) == {k \in 1..Len(sent) :
                   sent[k].kind = "offer" /\ sent[k].id = id /\ sent[k].ok}

(* offer `id` was sent to the chat at position j in this run *)
SentTo(id, j) == \E k \in 1..Len(sent) :
                    sent[k].kind = "offer" /\ sent[k].id = id /\ sent[k].chat = j

Enabled_ == args.telegram_token # "" /\ Len(chats) > 0

(* C1: commit rule.  Once the sends of a new matching offer are done, its  *)
(* identifier is in the seen set if and only if the number of sends that   *)
(* succeeded is the number of configured chats.                            *)
C1_CommitRule ==
    pc \in {"notify", "save", "exit"} =>
        \A k \in 1..Len(new) :
            k < idx =>
               (new[k].id \in seen <=> Cardinality(OkSends(new[k].id)) = Len(chats))

(* two chats: the previous run reached one of them with offer A and did    *)
(* not commit it, this run reached both and committed it                   *)
C1_Witness ==
    /\ pc = "save"
    /\ Len(chats) = 2
    /\ \E p \in partial : p.id = IdA /\ Cardinality(p.okChats) = 1
    /\ Cardinality(OkSends(IdA)) = 2
    /\ IdA \in seen

(* C2: retry after partial success.  An offer the previous run delivered   *)
(* to fewer than all chats and that this run still fetches (and matches)   *)
(* is sent again to every chat; an offer every chat received is in the     *)
(* seen set from then on, and in the seen file once the final save         *)
(* succeeded.                                                              *)
C2_RetryAfterPartial ==
    /\ (pc = "exit" /\ exitCode = 0 /\ Enabled_) =>
          \A p \in partial :
              (\E k \in 1..Len(filtered) : filtered[k].id = p.id) =>
                  \A j \in 1..Len(chats) : SentTo(p.id, j)
    /\ pc \in {"notify", "save", "exit"} =>
          \A k \in 1..Len(new) :
              (k < idx /\ \A j \in 1..Len(chats) :
                             \E m \in OkSends(new[k].id) : sent[m].chat = j)
                 => /\ new[k].id \in seen
                    /\ (pc = "exit" /\ io.finalSave = "ok") => new[k].id \in seenFile.ids

(* the previous run reached only the first of two chats with offer A; this *)
(* run sent it again to both, the first included, and saved it             *)
C2_Witness ==
    /\ pc = "exit"
    /\ Len(chats) = 2
    /\ \E p \in partial : p.id = IdA /\ p.okChats = {1}
    /\ SentTo(IdA, 1)
    /\ SentTo(IdA, 2)
    /\ Cardinality(OkSends(IdA)) = 2
    /\ seenFile.kind = "list"
    /\ IdA \in seenFile.ids

Pruned == fetched = "ok" /\ pc \notin {"load", "prune"} /\ io.seenReads = 1

(* C4: pruning.  After the prune step the seen set is the loaded set       *)
(* restricted to the identifiers of all fetched offers, the removed set is *)
(* the rest of the loaded set, and a seen identifier of a fetched offer    *)
(* that does not match the cities is kept.                                 *)
C4_Pruning ==
    Pruned =>
       LET fetchedIds == {campers[k].id : k \in 1..Len(campers)}
           matchingIds == {filtered[k].id : k \in 1..Len(filtered)}
       IN  /\ seen = startSeen \cap fetchedIds
           /\ stale = startSeen \ fetchedIds
           /\ \A id \in startSeen : (id \in fetchedIds \ matchingIds) => id \in seen

(* seen {A, B}, fetched {A}: seen becomes {A}, B is removed; A is kept     *)
(* although it no longer matches the cities                                *)
C4_Witness ==
    /\ Pruned
    /\ startSeen = {IdA, IdB}
    /\ seen = {IdA}
    /\ stale = {IdB}
    /\ cities # <<>>
    /\ filtered = <<>>

(* the sends of this run of a message of kind `kind` to the chat at       *)
(* position j                                                              *)
SendsOf(kind, j) == {k \in 1..Len(sent) : sent[k].kind = kind /\ sent[k].chat = j}

KindsSent == {sent[k].kind : k \in 1..Len(sent)}

(* C5: heartbeat decision.  With no prior record the check writes the      *)
(* current time (a failure of the write being swallowed) and sends         *)
(* nothing; with a prior record lastTime the liveness message goes to      *)
(* every chat if and only if now - lastTime > heartbeatDays * 86400, and   *)
(* while no chat has received it the record stays as it is.                *)
C5_HeartbeatDecision ==
    /\ [][(pc = "hb" /\ pc' # "hb") =>
             IF hbFile.kind # "time"
             THEN /\ pc' = "reload"
                  /\ sent' = sent
                  /\ io'.hbWrites = io.hbWrites + 1
                  /\ io'.hbLast = "ok" => hbFile' = [kind |-> "time", t |-> now]
             ELSE /\ (pc' = "send" /\ ctx' = "alive")
                        <=> (now - hbFile.t > config.heartbeat_days * 86400)
                  /\ pc' \in {"send", "reload"}
                  /\ hbFile' = hbFile]_vars
    /\ [][(ctx = "alive" /\ pc \in {"send", "alive_ret"}
             /\ \A k \in 1..Len(results) : ~results[k]) => hbFile' = hbFile]_vars
    /\ [][(pc = "alive_ret" /\ pc' # "alive_ret") =>
             /\ \A j \in 1..Len(chats) : SendsOf("alive", j) # {}
             /\ (\E k \in 1..Len(results) : results[k]) =>
                    /\ io'.hbWrites = io.hbWrites + 1
                    /\ io'.hbLast = "ok" => hbFile' = [kind |-> "time", t |-> now]]_vars
    /\ [][("alive" \in KindsSent') =>
             \E t \in last_time' :
                check_now' - t > config'.heartbeat_days * 86400]_vars

(* a liveness message went to both chats, one of which received it, and    *)
(* the time of the send is recorded                                        *)
C5_Witness ==
    /\ pc = "reload"
    /\ Len(chats) = 2
    /\ SendsOf("alive", 1) # {}
    /\ SendsOf("alive", 2) # {}
    /\ results \in {<<TRUE, FALSE>>, <<FALSE, TRUE>>}
    /\ hbFile = [kind |-> "time", t |-> now]
    /\ \E t \in last_time : now - t > config.heartbeat_days * 86400

(* a prior record exactly heartbeatDays old: nothing is sent *)
C5_WitnessAtThreshold ==
    /\ pc = "reload"
    /\ config.heartbeat_days = 1
    /\ last_time = {check_now - 86400}
    /\ sent = <<>>

(* C6: fetch failure.  When the fetch raises or finds no offer, the run    *)
(* exits with code 1, having sent the error notification exactly once to   *)
(* each configured chat (none when the credential or the chats are         *)
(* missing) and no offer or liveness message.                              *)
C6_FetchFailure ==
    fetched \in {"raised", "empty"} =>
       /\ KindsSent \subseteq {"error"}
       /\ \A j \in 1..Len(chats) : Cardinality(SendsOf("error", j)) <= 1
       /\ ~Enabled_ => sent = <<>>
       /\ pc = "exit" =>
             /\ exitCode = 1
             /\ Enabled_ => \A j \in 1..Len(chats) : Cardinality(SendsOf("error", j)) = 1
             /\ Len(sent) = IF Enabled_ THEN Len(chats) ELSE 0

(* the page had no offer: both chats were sent the error, the run exits 1 *)
C6_Witness ==
    /\ pc = "exit"
    /\ fetched = "empty"
    /\ exitCode = 1
    /\ Len(chats) = 2
    /\ Len(sent) = 2

(* the fetch raised and nothing is configured: the run exits 1 in silence *)
C6_WitnessSilent ==
    /\ pc = "exit"
    /\ fetched = "raised"
    /\ exitCode = 1
    /\ args.telegram_token = ""
    /\ sent = <<>>

(* C7: delivery and persistence errors never abort the run.  A run whose   *)
(* fetch found an offer exits with code 0, whatever the sends and the file *)
(* accesses gave; every new offer was sent to every chat, and while an     *)
(* offer is being sent the sends so far went to the chats in order,        *)
(* failed or not.                                                          *)
C7_NeverAborts ==
    /\ (pc = "exit" /\ fetched = "ok") =>
          /\ exitCode = 0
          /\ Enabled_ =>
                \A k \in 1..Len(new) : \A j \in 1..Len(chats) : SentTo(new[k].id, j)
    /\ (pc = "commit") =>
          /\ Len(results) = Len(chats)
          /\ \A j \in 1..Len(chats) : SentTo(new[idx].id, j)
    /\ (pc \in {"notify", "save"}) =>
          \A k \in 1..Len(new) : k < idx => \A j \in 1..Len(chats) : SentTo(new[k].id, j)

(* the run ends with code 0 although a write failed and the first send of  *)
(* the first offer failed: the second chat and the second offer were still *)
(* served                                                                  *)
C7_Witness ==
    /\ pc = "exit"
    /\ fetched = "ok"
    /\ exitCode = 0
    /\ io.failed
    /\ Len(chats) = 2
    /\ Len(new) = 2
    /\ Len(sent) >= 4
    /\ ~sent[Len(sent) - 3].ok
    /\ sent[Len(sent) - 3].kind = "offer"

(* no offer matches the cities: the run ends with code 0 *)
C7_WitnessNoMatch ==
    /\ pc = "exit"
    /\ fetched = "ok"
    /\ exitCode = 0
    /\ cities # <<>>
    /\ filtered = <<>>

(* C8: heartbeat update by the dispatcher.  When send_to_chats returns,    *)
(* for an offer, a liveness or an error message, it has written the        *)
(* current time to the heartbeat file (a failure of the write being        *)
(* swallowed) if at least one send succeeded, and has not touched the file *)
(* if every send failed.                                                   *)
C8_DispatcherRecordsTime ==
    [][(pc = "send" /\ pc' # "send") =>
          IF \E k \in 1..Len(results) : results[k]
          THEN /\ io'.hbWrites = io.hbWrites + 1
               /\ io'.hbLast = "ok" => hbFile' = [kind |-> "time", t |-> now]
               /\ io'.hbLast = "unchanged" => hbFile' = hbFile
          ELSE /\ hbFile' = hbFile
               /\ io'.hbWrites = io.hbWrites]_vars

(* an offer reached one of two chats a day after the last record: the      *)
(* record now holds the time of the send                                   *)
C8_Witness ==
    /\ pc = "commit"
    /\ results \in {<<TRUE, FALSE>>, <<FALSE, TRUE>>}
    /\ io.hbLast = "ok"
    /\ now > 0
    /\ hbFile = [kind |-> "time", t |-> now]
    /\ last_time # {now}

(* an error notification that no chat received leaves the record as it was *)
C8_WitnessAllFailed ==
    /\ pc = "exit"
    /\ fetched = "empty"
    /\ results = <<FALSE, FALSE>>
    /\ io.hbWrites = 0
    /\ hbFile.kind = "time"
    /\ hbFile.t < now

(* C9 as stated: the heartbeat check runs exactly once in every run with   *)
(* notifications enabled, and never in a run with notifications disabled.  *)
C9_OncePerEnabledRun ==
    pc = "exit" => io.hbChecks = IF Enabled_ THEN 1 ELSE 0

(* C9, amended: the heartbeat check runs exactly once in every run with    *)
(* notifications enabled whose fetch found at least one offer, whether or  *)
(* not any offer is new, and never in any other run.                       *)
C9_OncePerEnabledRunThatFetched ==
    /\ io.hbChecks <= 1
    /\ ~Enabled_ => io.hbChecks = 0
    /\ fetched # "ok" => io.hbChecks = 0
    /\ pc = "exit" => io.hbChecks = IF Enabled_ /\ fetched = "ok" THEN 1 ELSE 0

(* a run with notifications enabled and no new offer did the check once *)
C9_Witness ==
    /\ pc = "exit"
    /\ Enabled_
    /\ fetched = "ok"
    /\ filtered # <<>>
    /\ new = <<>>
    /\ io.hbChecks = 1

----------------------------------------------------------------------------
(* Configuration sources: every combination of set and unset options *)

EnvChoices ==
    [TELEGRAM_TOKEN : {{}, {"tokE"}},
     TELEGRAM_CHATS : {{}, {<<Chat1, <<" ", "2">> >>}},
     DEFAULT_CITIES : {{}, {<<Mad>>}},
     HEARTBEAT_DAYS : {{}, {1}}]

FileChoices ==
    {NoFile, [NoFile EXCEPT !.status = "invalid"]}
    \cup [status : {"ok"},
          telegram_token : {{}, {"tokF"}},
          telegram_chats : {{}, {<<Chat2>>}},
          default_cities : {{}, {<<Rom>>}},
          heartbeat_days : {{}, {2}}]

ArgvChoices ==
    [cities : {{}, {<< <<"z", "u", "r">> >>}},
     telegram_token : {{}, {"tokC"}},
     telegram_chats : {{}, {<<Chat1>>}}]

ConfigInit ==
    /\ seenFile = SeenAbsent
    /\ hbFile = HbAbsent
    /\ now = 0
    /\ environ \in EnvChoices
    /\ cfile \in FileChoices
    /\ argv \in ArgvChoices
    /\ FreshRun
    /\ delivered = {}
    /\ partial = {}
    /\ interrupted = {}
    /\ parked = NotStarted

ConfigNext == Startup

(* the start of one run, for every combination of configuration sources *)
SpecConfig == ConfigInit /\ [][ConfigNext]_vars

(* the options config.json sets, none when it is missing or unreadable *)
FileOption(opt) == IF cfile.status = "ok" THEN opt ELSE {}

(* the value of the first of the given sources that sets the option *)
FirstSet(sources, default) ==
    IF \E k \in 1..Len(sources) : sources[k] # {}
    THEN LET first == CHOOSE k \in 1..Len(sources) :
                         sources[k] # {} /\ \A m \in 1..(k - 1) : sources[m] = {}
         IN  CHOOSE v \in sources[first] : TRUE
    ELSE default

(* C10 as stated: the effective value of each option comes from the first  *)
(* source that sets it among command line, environment, config file,       *)
(* default, in this order.                                                 *)
C10_Precedence ==
    pc = "fetch" =>
       /\ args.telegram_token =
             FirstSet(<<argv.telegram_token, environ.TELEGRAM_TOKEN,
                        FileOption(cfile.telegram_token)>>, "")
       /\ chats =
             SplitStrip(FirstSet(<<argv.telegram_chats, environ.TELEGRAM_CHATS,
                                   FileOption(cfile.telegram_chats)>>, EmptyRaw))
       /\ SplitStrip(args.cities) =
             SplitStrip(FirstSet(<<argv.cities, environ.DEFAULT_CITIES,
                                   FileOption(cfile.default_cities)>>, EmptyRaw))
       /\ config.heartbeat_days =
             FirstSet(<<environ.HEARTBEAT_DAYS, FileOption(cfile.heartbeat_days)>>, 7)

(* C10, what the code does: command line, then config file, then           *)
(* environment, then default.                                              *)
C10_FileOverEnvironment ==
    pc = "fetch" =>
       /\ args.telegram_token =
             FirstSet(<<argv.telegram_token, FileOption(cfile.telegram_token),
                        environ.TELEGRAM_TOKEN>>, "")
       /\ chats =
             SplitStrip(FirstSet(<<argv.telegram_chats, FileOption(cfile.telegram_chats),
                                   environ.TELEGRAM_CHATS>>, EmptyRaw))
       /\ SplitStrip(args.cities) =
             SplitStrip(FirstSet(<<argv.cities, FileOption(cfile.default_cities),
                                   environ.DEFAULT_CITIES>>, EmptyRaw))
       /\ config.heartbeat_days =
             FirstSet(<<FileOption(cfile.heartbeat_days), environ.HEARTBEAT_DAYS>>, 7)

----------------------------------------------------------------------------
(* The parsing loop of fetch_imoova_campers(), over every page of at most  *)
(* MaxRows rows                                                            *)

MaxRows == 3

(* rows the loop skips: no identifier, no origin, no arrival, a header     *)
(* spelled in capitals, two cells only; each with the identifier of an     *)
(* offer where it has one                                                  *)
NoIdRow == << <<>>, Mad, Rom >>

NoOriginB == <<IdB, <<>>, Rom>>

NoArrivalA == <<IdA, Mad, <<>> >>

HeaderLikeA == <<IdA, <<"O", "R", "i", "g", "i", "n">>, Rom>>

ShortRowA == <<IdA, Rom>>

(* a row with one of the optional cells *)
RowB4 == <<IdB, Mad, Par, <<"1">> >>

FetchRows == {HeaderRow, RowA, RowA2, RowB, RowB4, ShortRowA, NoIdRow, NoOriginB,
              NoArrivalA, HeaderLikeA}

FetchTables == UNION {[1..n -> FetchRows] : n \in 0..MaxRows}

FetchNext == Startup \/ FetchFrom(FetchTables, TRUE)

SpecFetch == Init /\ [][FetchNext]_vars

(* row i of the page is one the claim calls valid *)
ValidAt(i) == /\ Len(page[i]) >= 3
              /\ page[i][1] # <<>>
              /\ page[i][2] # <<>>
              /\ page[i][3] # <<>>
              /\ Lower(page[i][2]) # <<"o", "r", "i", "g", "i", "n">>

(* row i is the first valid row with its identifier *)
FirstValidAt(i) == /\ ValidAt(i)
                   /\ \A j \in 1..(i - 1) : ValidAt(j) => page[j][1] # page[i][1]

KeptRows == {i \in 1..Len(page) : FirstValidAt(i)}

(* the position in the result of kept row i *)
RankOf(i) == Cardinality({j \in KeptRows : j <= i})

OptionalCell(i, k) == IF k <= Len(page[i]) THEN page[i][k] ELSE <<>>

(* C11: the offers returned are exactly, in the order of the page, the     *)
(* first row of each identifier among the valid rows (three cells or more, *)
(* identifier, origin and arrival not empty, origin not "origin" in any    *)
(* case); a row that is not valid does not make a later row a repeat; an   *)
(* optional cell the row lacks is the empty string                         *)
C11_RowPolicy ==
    fetched \in {"ok", "empty"} =>
        /\ Len(campers) = Cardinality(KeptRows)
        /\ \A i \in KeptRows :
              campers[RankOf(i)] = [id      |-> page[i][1],
                                    origin  |-> page[i][2],
                                    arrival |-> page[i][3],
                                    start   |-> OptionalCell(i, 4),
                                    end     |-> OptionalCell(i, 5),
                                    model   |-> OptionalCell(i, 6),
                                    days    |-> OptionalCell(i, 8)]

(* a page where a row without arrival precedes the first valid row of      *)
(* offer A, and a second row of offer A follows                            *)
C11_Witness ==
    /\ fetched = "ok"
    /\ page = <<NoArrivalA, RowA, RowA2>>
    /\ Len(campers) = 1
    /\ campers[1].origin = Mad
    /\ campers[1].start = <<>>

----------------------------------------------------------------------------
(* Claims about the state files, checked under Spec *)

(* the run is in the notification loop or just after it *)
InLoop == \/ pc \in {"notify", "commit", "save"}
          \/ pc = "send" /\ ctx = "offer"

(* C12: a seen file that is absent, unparsable or not a list loads as the  *)
(* empty set and the run goes on: nothing is stale, every matching offer   *)
(* of the fetch is new, and an enabled run sends each of them to every     *)
(* chat                                                                    *)
C12_LoadIsTotal ==
    seenFile.kind \in {"absent", "garbage", "other"} =>
        /\ pc = "prune" => seen = {} /\ stale = {} /\ startSeen = {}
        /\ InLoop => new = filtered
        /\ pc = "save" =>
              \A k \in 1..Len(filtered) : \A j \in 1..Len(chats) :
                  SentTo(filtered[k].id, j)

(* the file holds an object with the key A; offer A matched and went to    *)
(* both chats                                                              *)
C12_Witness ==
    /\ pc = "save"
    /\ seenFile = SeenNotAList
    /\ io.seenReads = 2
    /\ Len(chats) = 2
    /\ \E k \in 1..Len(filtered) : filtered[k].id = IdA
    /\ SentTo(IdA, 1)
    /\ SentTo(IdA, 2)

(* the calls of send_to_chats of this run that sent something *)
Dispatches == {<<sent[k].kind, sent[k].id>> : k \in 1..Len(sent)}

(* C13 as stated: each of the two state files is read at most once and     *)
(* written at most twice in a run                                          *)
C13_ReadOnceWriteTwice ==
    /\ io.seenReads <= 1
    /\ io.hbReads <= 1
    /\ io.seenWrites <= 2
    /\ io.hbWrites <= 2

(* C13, amended: in a run the seen file is read at most twice (at the      *)
(* start and again before the notification loop) and written at most       *)
(* twice; the heartbeat file is read at most once and written at most once *)
(* per message dispatched and once more by the heartbeat check             *)
C13_FileAccesses ==
    /\ io.seenReads <= 2
    /\ io.seenWrites <= 2
    /\ io.hbReads <= 1
    /\ io.hbWrites <= Cardinality(Dispatches) + 1

(* a run that pruned, sent the liveness message and an offer: two reads    *)
(* and two writes of the seen file, three writes of the heartbeat file     *)
C13_Witness ==
    /\ pc = "exit"
    /\ io.seenReads = 2
    /\ io.seenWrites = 2
    /\ io.hbReads = 1
    /\ io.hbWrites = 3
    /\ Cardinality(Dispatches) = 2

(* C14 as stated: the set the final save writes holds no identifier that   *)
(* is absent from the fetch of the run, also when the prune-triggered save *)
(* failed                                                                  *)
C14_NoStaleSurvives ==
    (pc = "exit" /\ fetched = "ok" /\ io.finalSave = "ok") =>
        \A id \in seenFile.ids : \E k \in 1..Len(campers) : campers[k].id = id

(* the same, for the runs whose prune-triggered save did not fail *)
C14_NoStaleSurvivesPruneSaved ==
    (pc = "exit" /\ fetched = "ok" /\ io.finalSave = "ok"
       /\ io.pruneSave \in {"none", "ok"}) =>
        \A id \in seenFile.ids : \E k \in 1..Len(campers) : campers[k].id = id

----------------------------------------------------------------------------
(* Two processes of the script over the same two state files: nothing in   *)
(* the script locks the files, so the steps of the two interleave freely   *)

(* the next step of the running process reads or writes a state file or   *)
(* the clock, or the process has exited                                    *)
AtSharedAccess ==
    \/ pc \in {"load", "prune", "hb", "alive_ret", "reload", "save", "exit"}
    \/ pc = "send" /\ chatIdx > Len(LoopChats)

(* the scheduler lets the other process run; the steps between two         *)
(* accesses of the files touch only the variables of their process, so a   *)
(* switch before an access stands for the switches before them             *)
Switch ==
    /\ parked.pc # "exit"
    /\ AtSharedAccess
    /\ parked' = Process
    /\ pc' = parked.pc
    /\ exitCode' = parked.exitCode
    /\ config' = parked.config
    /\ args' = parked.args
    /\ chats' = parked.chats
    /\ campers' = parked.campers
    /\ page' = parked.page
    /\ cities' = parked.cities
    /\ filtered' = parked.filtered
    /\ seen' = parked.seen
    /\ stale' = parked.stale
    /\ new' = parked.new
    /\ idx' = parked.idx
    /\ ctx' = parked.ctx
    /\ chatIdx' = parked.chatIdx
    /\ results' = parked.results
    /\ last_time' = parked.last_time
    /\ check_now' = parked.check_now
    /\ sent' = parked.sent
    /\ io' = parked.io
    /\ fetched' = parked.fetched
    /\ startSeen' = parked.startSeen
    /\ UNCHANGED <<seenFile, hbFile, now, inputVars, crossVars>>

(* both processes run the one-chat deployment *)
ConcInit ==
    /\ Init
    /\ seenFile = SeenAbsent
    /\ cfile.status = "ok"

ConcNext ==
    \/ Startup
    \/ FetchRaises
    \/ FetchTable
    \/ LoadSeen
    \/ Prune
    \/ CheckAlive
    \/ SendOne
    \/ SendDone
    \/ AliveReturn
    \/ Reload
    \/ NotifyNext
    \/ Commit
    \/ FinalSave
    \/ Tick
    \/ Switch

SpecConc == ConcInit /\ [][ConcNext]_vars

(* process r sent offer `id` to the chat at position j, with success *)
DeliveredBy(r, id, j) ==
    \E k \in 1..Len(r.sent) : /\ r.sent[k].kind = "offer"
                              /\ r.sent[k].id = id
                              /\ r.sent[k].chat = j
                              /\ r.sent[k].ok

(* C15: two overlapping runs are not coordinated: when both have made      *)
(* their final save, the seen file holds the set of one of them alone,     *)
(* never the two sets together; so an identifier one run delivered and     *)
(* saved can be missing from the file, and both runs can send the same     *)
(* offer to the same chat                                                  *)
C15_LastSaveWins ==
    (/\ pc = "exit" /\ parked.pc = "exit"
     /\ io.finalSave = "ok" /\ parked.io.finalSave = "ok") =>
        /\ seenFile.kind = "list"
        /\ seenFile.ids = seen \/ seenFile.ids = parked.seen

(* both runs fetched offer A and sent it to the chat; one delivered it and *)
(* saved it, the other did not deliver it and saved last: the file does    *)
(* not hold A                                                              *)
C15_Witness ==
    /\ pc = "exit" /\ parked.pc = "exit"
    /\ io.finalSave = "ok" /\ parked.io.finalSave = "ok"
    /\ Len(chats) = 1 /\ Len(parked.chats) = 1
    /\ DeliveredBy(parked, IdA, 1)
    /\ IdA \in parked.seen
    /\ \E k \in 1..Len(campers) : campers[k].id = IdA
    /\ \E k \in 1..Len(sent) : sent[k].kind = "offer" /\ sent[k].id = IdA
                               /\ sent[k].chat = 1
    /\ seenFile.kind = "list"
    /\ IdA \notin seenFile.ids

(* both runs delivered offer A to the chat *)
C15_WitnessDuplicate ==
    /\ pc = "exit" /\ parked.pc = "exit"
    /\ DeliveredBy(parked, IdA, 1)
    /\ DeliveredBy(Process, IdA, 1)

----------------------------------------------------------------------------
(* Runs that are killed in the notification loop *)

(* the process stops between the first send of the loop and the final save *)
Crash ==
    /\ InLoop
    /\ \E k \in 1..Len(sent) : sent[k].kind = "offer"
    /\ io' = [io EXCEPT !.crashed = TRUE]
    /\ pc' = "exit"
    /\ exitCode' = -9
    /\ UNCHANGED <<seenFile, hbFile, now, inputVars, parked, cfgVars,
                   offerVars, seenVars, sendVars, hbVars, sent, fetched,
                   startSeen, crossVars>>

(* the deployments with one chat and no city filter, and with two entries  *)
(* in the chat list and the city "zur"                                     *)
CrashInit ==
    /\ Init
    /\ seenFile = SeenAbsent
    /\ cfile.status = "ok" \/ argv.telegram_chats # {}

CrashNext == Next \/ Crash

SpecCrash == CrashInit /\ [][CrashNext]_vars

(* the identifiers load_seen would read from the seen file now *)
FileIds == IF seenFile.kind = "list" THEN seenFile.ids ELSE {}

(* C16: the identifiers committed in the loop reach the file only by the   *)
(* save after the loop: in the loop, and after a kill in the loop, the     *)
(* file holds no offer of the loop and still holds what the prune left     *)
(* (the loaded identifiers that are in the fetch, when the prune-triggered *)
(* save did not fail); and the next run that completes with an offer       *)
(* delivered by a killed run listed and matching sends it to every chat    *)
C16_CrashLosesCommitsOnly ==
    /\ (InLoop \/ (pc = "exit" /\ io.crashed)) =>
          /\ \A k \in 1..Len(new) : new[k].id \notin FileIds
          /\ io.pruneSave \in {"none", "ok"} =>
                FileIds = {id \in startSeen :
                              \E k \in 1..Len(campers) : campers[k].id = id}
    /\ (pc = "exit" /\ ~io.crashed /\ io.finalSave # "none") =>
          \A id \in interrupted :
              (\E k \in 1..Len(filtered) : filtered[k].id = id) =>
                  \A j \in 1..Len(chats) : SentTo(id, j)

(* offer B was delivered to both chats by a run that was killed before the *)
(* final save; this run sent it to both again and saved it                 *)
C16_Witness ==
    /\ pc = "exit"
    /\ ~io.crashed
    /\ io.finalSave = "ok"
    /\ IdB \in interrupted
    /\ IdB \notin startSeen
    /\ Len(chats) = 2
    /\ SentTo(IdB, 1)
    /\ SentTo(IdB, 2)
    /\ IdB \in FileIds

(* the run was killed after it had delivered offer B to both chats and     *)
(* committed it in memory; the file does not hold it                       *)
C16_WitnessKilled ==
    /\ pc = "exit"
    /\ io.crashed
    /\ Len(chats) = 2
    /\ Cardinality(OkSends(IdB)) = 2
    /\ IdB \in seen
    /\ IdB \notin FileIds

----------------------------------------------------------------------------
(* Runs over state files that earlier runs left behind: the deployments    *)
(* without notifications, and the one with two chat entries                *)

ExistingInit ==
    /\ seenFile \in {SeenFileOf(S) : S \in SUBSET Ids}
    /\ hbFile \in {HbAbsent, HbFileOf(0)}
    /\ now = 0
    /\ \E d \in Deployments :
          /\ d.environ.TELEGRAM_CHATS = {}
          /\ d.cfile.telegram_chats = {}
          /\ environ = d.environ
          /\ cfile = d.cfile
          /\ argv = d.argv
    /\ FreshRun
    /\ delivered = {}
    /\ partial = {}
    /\ interrupted = {}
    /\ parked = NotStarted

SpecExisting == ExistingInit /\ [][Next]_vars

(* C17: a run without a credential or without chats sends nothing, does    *)
(* not read or write the heartbeat record, adds no identifier to the seen  *)
(* set, and writes the seen file only in the prune step, when something is *)
(* stale: what it writes is the loaded set without the stale identifiers   *)
C17_DisabledRunsSendFree ==
    /\ [](~(args.telegram_token # "" /\ Len(chats) > 0) =>
            /\ sent = <<>>
            /\ io.hbReads = 0 /\ io.hbWrites = 0 /\ io.hbChecks = 0
            /\ io.seenWrites <= 1
            /\ seen \subseteq startSeen
            /\ io.pruneSave = "ok" =>
                  /\ seenFile.kind = "list"
                  /\ seenFile.ids \subseteq startSeen
                  /\ seenFile.ids = {id \in startSeen :
                        \E k \in 1..Len(campers) : campers[k].id = id})
    /\ [][(pc \notin {"start", "exit"}
             /\ ~(args.telegram_token # "" /\ Len(chats) > 0)) =>
            /\ hbFile' = hbFile
            /\ seenFile' # seenFile =>
                  /\ pc = "prune"
                  /\ io'.pruneSave # "none"
                  /\ \E id \in startSeen :
                        \A k \in 1..Len(campers) : campers[k].id # id]_vars

(* no chat is configured; the file held A and B, the page lists A only:    *)
(* the run wrote the file without B and sent nothing                       *)
C17_Witness ==
    /\ pc = "exit"
    /\ exitCode = 0
    /\ chats = <<>>
    /\ startSeen = {IdA, IdB}
    /\ seenFile = SeenFileOf({IdA})
    /\ hbFile = HbFileOf(0)
    /\ now > 0
    /\ sent = <<>>

----------------------------------------------------------------------------
(* Claims checked under Spec: failed fetches, repeated sends *)

(* C18: when the fetch raises or finds no offer, the seen file is not      *)
(* read, pruned or written; of the state only the heartbeat record may     *)
(* change, and it is written exactly when the error notification reached   *)
(* a chat                                                                  *)
C18_FailedFetchLeavesSeen ==
    /\ [](fetched \in {"raised", "empty"} =>
            /\ io.seenReads = 0 /\ io.seenWrites = 0
            /\ seen = {} /\ stale = {} /\ startSeen = {}
            /\ io.hbReads = 0
            /\ pc = "exit" =>
                  /\ io.hbWrites = IF \E k \in 1..Len(sent) : sent[k].ok
                                   THEN 1 ELSE 0
                  /\ io.hbLast = "ok" => hbFile = [kind |-> "time", t |-> now])
    /\ [][fetched' \in {"raised", "empty"} =>
            /\ seenFile' = seenFile
            /\ hbFile' # hbFile => \E k \in 1..Len(sent) : sent[k].ok]_vars

(* the fetch raised in a later run: the error reached one of the two chats *)
(* and the time was recorded; the seen file holds what it held             *)
C18_Witness ==
    /\ pc = "exit"
    /\ fetched = "raised"
    /\ Len(sent) = 2
    /\ sent[1].ok /\ ~sent[2].ok
    /\ now > 0
    /\ hbFile = HbFileOf(now)
    /\ seenFile = SeenFileOf({IdA, IdB})

(* the error reached no chat: nothing was written *)
C18_WitnessNoChatReached ==
    /\ pc = "exit"
    /\ fetched = "empty"
    /\ Len(sent) = 2
    /\ ~sent[1].ok /\ ~sent[2].ok
    /\ io.hbWrites = 0
    /\ hbFile = HbFileOf(0)
    /\ now > 0

(* C19: within a run each entry of the chat list is sent at most one       *)
(* notification per offer identifier and at most one liveness message,     *)
(* whatever the page (repeated identifiers included) and whatever the      *)
(* sends return                                                            *)
C19_NoInRunDuplicates ==
    \A j \in 1..Len(chats) :
        /\ \A id \in {sent[k].id : k \in 1..Len(sent)} :
              Cardinality({k \in 1..Len(sent) : /\ sent[k].kind = "offer"
                                                /\ sent[k].id = id
                                                /\ sent[k].chat = j}) <= 1
        /\ Cardinality({k \in 1..Len(sent) : /\ sent[k].kind = "alive"
                                             /\ sent[k].chat = j}) <= 1

(* a run sent the liveness message and the offers A and B, each once to    *)
(* each of the two chats, with sends that failed among them                *)
C19_Witness ==
    /\ pc = "exit"
    /\ Len(chats) = 2
    /\ Len(sent) = 6
    /\ {sent[k].kind : k \in 1..Len(sent)} = {"alive", "offer"}
    /\ {sent[k].id : k \in {n \in 1..Len(sent) : sent[n].kind = "offer"}}
          = {IdA, IdB}
    /\ \E k \in 1..Len(sent) : ~sent[k].ok

----------------------------------------------------------------------------
(* The one-chat deployment with the --cities values that leave no city     *)

(* --cities is not given (and no default cities are configured); it holds  *)
(* blank entries only; its entries are combining marks only; one city      *)
CityArgs == { {},
              {<< <<" ">>, <<>> >>},
              {<< <<"U+0308">> >>},
              {<< <<" ", "U+0308">>, <<" ">> >>},
              {<< Mad >>} }

CitiesInit ==
    /\ seenFile = SeenAbsent
    /\ hbFile = HbAbsent
    /\ now = 0
    /\ \E d \in Deployments :
          /\ d.cfile.status = "ok"
          /\ environ = d.environ
          /\ cfile = d.cfile
          /\ \E c \in CityArgs : argv = [d.argv EXCEPT !.cities = c]
    /\ FreshRun
    /\ delivered = {}
    /\ partial = {}
    /\ interrupted = {}
    /\ parked = NotStarted

SpecCities == CitiesInit /\ [][Next]_vars

(* the entry of --cities is blank *)
Blank(entry) == \A i \in 1..Len(entry) : entry[i] = " "

(* no entry is left after the blank ones are dropped *)
NoCityGiven == \A k \in 1..Len(args.cities) : Blank(args.cities[k])

(* C20: with no city left in the list (none given and none configured, or  *)
(* blank entries only) every fetched offer matches, and an enabled run     *)
(* sends every one that is not in the seen file to every chat; with a list *)
(* whose entries all normalize to the empty string no offer matches        *)
C20_EmptyFilter ==
    fetched = "ok" =>
        /\ NoCityGiven =>
              /\ filtered = campers
              /\ pc = "save" =>
                    \A k \in 1..Len(campers) :
                        \/ campers[k].id \in FileIds
                        \/ \A j \in 1..Len(chats) : SentTo(campers[k].id, j)
        /\ (/\ ~NoCityGiven
            /\ \A k \in 1..Len(args.cities) :
                  normalize_city(args.cities[k]) = <<>>) =>
              filtered = <<>>

(* --cities holds blank entries only: both offers of the page matched and  *)
(* were sent                                                               *)
C20_Witness ==
    /\ pc = "save"
    /\ args.cities = << <<" ">>, <<>> >>
    /\ cities = <<>>
    /\ Len(campers) = 2
    /\ filtered = campers
    /\ SentTo(IdA, 1)
    /\ SentTo(IdB, 1)

(* --cities holds a combining mark only: the list has an entry, and no     *)
(* offer of the page matched                                               *)
C20_WitnessNoMatch ==
    /\ pc = "exit"
    /\ exitCode = 0
    /\ args.cities = << <<"U+0308">> >>
    /\ Len(cities) = 1
    /\ Len(campers) = 2
    /\ filtered = <<>>
    /\ sent = <<>>

====
